---- MODULE Spec2Model ----
(***************************************************************************)
(* A model of tinymqtt: the cursor-based MQTT v5 message writer and        *)
(* reader (src/src/reader_writer.rs), the flag byte (src/src/flags.rs)     *)
(* and the client session with its two fixed-capacity buffers and its      *)
(* connection state machine (src/src/lib.rs).                              *)
(*                                                                         *)
(* Bytes are the integers 0..255, strings and slices are sequences of      *)
(* bytes.  A Rust panic (index out of bounds, unwrap of None, arithmetic   *)
(* overflow) is the result "Panic"; it is fatal, no operation follows it.  *)
(* A call that never returns is the result "Hang".                         *)
(***************************************************************************)
EXTENDS Integers, Sequences, FiniteSets, TLC

\* ------------------------------------------------------------------ bounds
\* Capacity N of construct_buffer and message_buffer (the const generic
\* parameter of MqttClient<N>): a small session for the protocol runs, one
\* that holds a body of more than 127 bytes for the packet builders.
SmallN ==
  16

LargeN ==
  140

\* Largest number of concatenated packets in one receive_packet input.
MaxPackets ==
  2

\* Largest number of packet identifiers drawn in one run.
MaxIds ==
  2

\* ------------------------------------------------------- integer helpers
U8 ==
  256

U16 ==
  65536

\* A u32 is the pair [hi, lo] of its 16-bit halves.
\* n as u32
U32Of(n) ==
  [hi |-> (n \div U16) % U16, lo |-> n % U16]

\* v as usize
U32ToUsize(v) ==
  v.hi * U16 + v.lo

RECURSIVE BitOr(_, _)
\* a | b on unsigned integers
BitOr(a, b) ==
  IF a = 0 THEN b
  ELSE IF b = 0 THEN a
  ELSE (IF a % 2 = 1 \/ b % 2 = 1 THEN 1 ELSE 0) + 2 * BitOr(a \div 2, b \div 2)

RECURSIVE Pow2(_)
Pow2(n) ==
  IF n = 0 THEN 1 ELSE 2 * Pow2(n - 1)

\* x << n on a u8: bits shifted out of the byte are lost
Shl8(x, n) ==
  (x * Pow2(n)) % U8

\* (x as u32) << n for a 7-bit x and 0 <= n < 32: the bits shifted past bit
\* 31 are lost
Shl32(x, n) ==
  IF n < 16 THEN [hi |-> (x * Pow2(n)) \div U16, lo |-> (x * Pow2(n)) % U16]
  ELSE [hi |-> (x * Pow2(n - 16)) % U16, lo |-> 0]

\* a | b on u32
Or32(a, b) ==
  [hi |-> BitOr(a.hi, b.hi), lo |-> BitOr(a.lo, b.lo)]

\* a shift that loses the bits that come down from the high half
Shr7_low_half(v) ==
  [hi |-> v.hi \div 128, lo |-> v.lo \div 128]

\* value >> 7 on u32
Shr7(v) ==
  [hi |-> v.hi \div 128, lo |-> v.lo \div 128 + (v.hi % 128) * 512]

\* ----------------------------------------------------------------- Flags
FlagsNew(value) ==
  [value |-> value]

FlagsZero ==
  [value |-> 0]

\* a set that sets the bit above
FlagsSet_next_bit(f, index) ==
  [value |-> BitOr(f.value, Shl8(1, (index + 1) % 8))]

\* self.value |= 1 << index
FlagsSet(f, index) ==
  [value |-> BitOr(f.value, Shl8(1, index))]

\* (self.value & (1 << index)) != 0
FlagsGet(f, index) ==
  (f.value \div Pow2(index)) % 2 = 1

\* ------------------------------------------------------ MqttMessageWriter
\* A writer is [buffer, cursor, ok]; ok = FALSE once a write indexed past
\* the end of the buffer (the panic of buffer[cursor]).
WriterNew(buffer) ==
  [buffer |-> buffer, cursor |-> 0, ok |-> TRUE]

write_u8(w, value) ==
  IF ~w.ok THEN w
  ELSE IF w.cursor >= Len(w.buffer) THEN [w EXCEPT !.ok = FALSE]
  ELSE [w EXCEPT !.buffer[w.cursor + 1] = value, !.cursor = w.cursor + 1]

write_flags(w, value) ==
  write_u8(w, value.value)

\* the high byte is stored before the low byte is indexed
write_u16(w, value) ==
  IF ~w.ok THEN w
  ELSE IF w.cursor >= Len(w.buffer) THEN [w EXCEPT !.ok = FALSE]
  ELSE IF w.cursor + 1 >= Len(w.buffer)
       THEN [w EXCEPT !.buffer[w.cursor + 1] = (value \div 256) % U8, !.ok = FALSE]
  ELSE [w EXCEPT !.buffer[w.cursor + 1] = (value \div 256) % U8,
                 !.buffer[w.cursor + 2] = value % U8,
                 !.cursor = w.cursor + 2]

\* the loop stores byte after byte and panics at the first one that does
\* not fit
write_bytes_raw(w, value) ==
  IF ~w.ok THEN w
  ELSE LET room == Len(w.buffer) - w.cursor
           fit == IF Len(value) <= room THEN Len(value) ELSE room
       IN [buffer |-> [i \in 1..Len(w.buffer) |->
                         IF i > w.cursor /\ i <= w.cursor + fit
                         THEN value[i - w.cursor] ELSE w.buffer[i]],
           cursor |-> w.cursor + fit,
           ok |-> fit = Len(value)]

\* value.len() as u16, then the bytes
write_string(w, value) ==
  write_bytes_raw(write_u16(w, Len(value) % U16), value)

write_bytes(w, value) ==
  write_bytes_raw(write_u16(w, Len(value) % U16), value)

RECURSIVE write_variable_int(_, _)
\* the end of one round of the loop: break when nothing is left
VarIntBreak(w, value) ==
  IF ~w.ok \/ (value.hi = 0 /\ value.lo = 0) THEN w ELSE write_variable_int(w, value)

\* the byte of one round: the low 7 bits, with 0x80 when more follow
VarIntByte(value) ==
  IF Shr7(value).hi > 0 \/ Shr7(value).lo > 0 THEN (value.lo % 128) + 128
  ELSE value.lo % 128

write_variable_int(w, value) ==
  VarIntBreak(write_u8(w, VarIntByte(value)), Shr7(value))

WriterLen(w) ==
  w.cursor

\* ------------------------------------------------------ MqttMessageReader
\* A reader is [buffer, cursor, mark, ok, checks, usize]; every read
\* returns [r, v].  cursor and mark are usize: usize is the width of the
\* target's usize in bits (16, 32 or 64), and checks tells whether the
\* build panics on arithmetic overflow or wraps.
UsizeBits ==
  {16, 32, 64}

ReaderNew(buffer) ==
  [buffer |-> buffer, cursor |-> 0, mark |-> 0, ok |-> TRUE,
   checks |-> TRUE, usize |-> 64]

\* the reader of a build without overflow checks or with a narrower usize
ReaderOn(buffer, checks, usize) ==
  [ReaderNew(buffer) EXCEPT !.checks = checks, !.usize = usize]

\* whether n is a value of the reader's usize; the numbers the reader
\* meets here stay below 2^31
Fits(n, r) ==
  n >= 0 /\ (r.usize > 16 \/ n < U16)

\* n reduced to the reader's usize
Wrapped(n, r) ==
  IF r.usize > 16 THEN n ELSE n % U16

\* v as usize: a u32 is cut to the width of usize
AsUsize(v, r) ==
  IF r.usize > 16 THEN U32ToUsize(v) ELSE v.lo

\* self.cursor = n for the result n of an addition on usize: out of range
\* it panics (overflow checks) or wraps
CursorTo(r, n) ==
  IF Fits(n, r) THEN [r EXCEPT !.cursor = n]
  ELSE IF r.checks THEN [r EXCEPT !.ok = FALSE]
  ELSE [r EXCEPT !.cursor = Wrapped(n, r)]

read_u8(r) ==
  IF ~r.ok THEN [r |-> r, v |-> 0]
  ELSE IF r.cursor >= Len(r.buffer) THEN [r |-> [r EXCEPT !.ok = FALSE], v |-> 0]
  ELSE [r |-> [r EXCEPT !.cursor = r.cursor + 1], v |-> r.buffer[r.cursor + 1]]

read_u16(r) ==
  IF ~r.ok THEN [r |-> r, v |-> 0]
  ELSE IF r.cursor + 1 >= Len(r.buffer) THEN [r |-> [r EXCEPT !.ok = FALSE], v |-> 0]
  ELSE [r |-> [r EXCEPT !.cursor = r.cursor + 2],
        v |-> r.buffer[r.cursor + 1] * 256 + r.buffer[r.cursor + 2]]

\* &self.buffer[start..self.cursor] after cursor += length
read_bytes_raw(r, length) ==
  IF ~r.ok THEN [r |-> r, v |-> <<>>]
  ELSE IF r.cursor + length > Len(r.buffer)
       THEN [r |-> [r EXCEPT !.cursor = r.cursor + length, !.ok = FALSE], v |-> <<>>]
  ELSE [r |-> [r EXCEPT !.cursor = r.cursor + length],
        v |-> SubSeq(r.buffer, r.cursor + 1, r.cursor + length)]

\* core::str::from_utf8: is the byte sequence well-formed UTF-8
RECURSIVE IsUtf8(_)
IsUtf8(b) ==
  LET Cont(i) == i <= Len(b) /\ b[i] >= 128 /\ b[i] <= 191
      Rest(k) == IsUtf8(SubSeq(b, k + 1, Len(b)))
  IN IF \A i \in 1..Len(b) : b[i] < 128 THEN TRUE
     ELSE IF b[1] < 128 THEN Rest(1)
     ELSE IF b[1] >= 194 /\ b[1] <= 223 THEN Cont(2) /\ Rest(2)
     ELSE IF b[1] = 224 THEN Cont(2) /\ b[2] >= 160 /\ Cont(3) /\ Rest(3)
     ELSE IF b[1] = 237 THEN Cont(2) /\ b[2] <= 159 /\ Cont(3) /\ Rest(3)
     ELSE IF b[1] >= 225 /\ b[1] <= 239 THEN Cont(2) /\ Cont(3) /\ Rest(3)
     ELSE IF b[1] = 240 THEN Cont(2) /\ b[2] >= 144 /\ Cont(3) /\ Cont(4) /\ Rest(4)
     ELSE IF b[1] >= 241 /\ b[1] <= 243 THEN Cont(2) /\ Cont(3) /\ Cont(4) /\ Rest(4)
     ELSE IF b[1] = 244 THEN Cont(2) /\ b[2] <= 143 /\ Cont(3) /\ Cont(4) /\ Rest(4)
     ELSE FALSE

\* &self.buffer[start..self.cursor] for the length l that was read
ReadSlice(l) ==
  read_bytes_raw(l.r, l.v)

\* from_utf8(..).unwrap() on the slice s that was read
Utf8Unwrap(s) ==
  IF s.r.ok /\ ~IsUtf8(s.v) THEN [r |-> [s.r EXCEPT !.ok = FALSE], v |-> <<>>] ELSE s

read_string(r) ==
  Utf8Unwrap(ReadSlice(read_u16(r)))

read_bytes(r) ==
  ReadSlice(read_u16(r))

\* The loop of read_variable_int.  `shift` is a u32 shift amount: from the
\* sixth byte on it is 35 or more, which panics when overflow checks are
\* compiled in and is taken modulo 32 when they are not.
RECURSIVE ReadVarLoop(_, _, _, _)
ReadVarLoop(r, value, shift, checks) ==
  IF r.cursor >= Len(r.buffer) THEN [r |-> [r EXCEPT !.ok = FALSE], v |-> U32Of(0)]
  ELSE IF shift >= 32 /\ checks
       THEN [r |-> [r EXCEPT !.cursor = r.cursor + 1, !.ok = FALSE], v |-> U32Of(0)]
  ELSE LET byte == r.buffer[r.cursor + 1]
           r1 == [r EXCEPT !.cursor = r.cursor + 1]
           v1 == Or32(value, Shl32(byte % 128, shift % 32))
       IN IF byte < 128 THEN [r |-> r1, v |-> v1]
          ELSE ReadVarLoop(r1, v1, shift + 7, checks)

read_variable_int(r, checks) ==
  IF ~r.ok THEN [r |-> r, v |-> U32Of(0)] ELSE ReadVarLoop(r, U32Of(0), 0, checks)

\* self.buffer.len() - self.cursor on usize: with the cursor past the end
\* the subtraction panics (overflow checks) or wraps to a huge value, and
\* then the next read_u8 panics; -1 stands for both.
remaining(r) ==
  IF r.cursor > Len(r.buffer) THEN -1 ELSE Len(r.buffer) - r.cursor

skip(r, length) ==
  CursorTo(r, r.cursor + length)

mark(r) ==
  [r EXCEPT !.mark = r.cursor]

\* a skip_to that counts from the cursor
skip_to_from_cursor(r, position) ==
  CursorTo(r, r.cursor + position)

skip_to(r, position) ==
  CursorTo(r, r.mark + position)

\* self.cursor - self.mark: the cursor is below the mark only after it
\* wrapped, in a build without overflow checks, and then this wraps too
distance_from_mark(r) ==
  IF r.cursor >= r.mark THEN r.cursor - r.mark ELSE Wrapped(r.cursor - r.mark, r)

\* ------------------------------------------------------------ lib.rs types
Disconnected ==
  "Disconnected"

Connecting ==
  "Connecting"

Connected ==
  "Connected"

MqttState ==
  {Disconnected, Connecting, Connected}

\* MqttError, plus "Ok" and the fatal "Panic"
MqttError ==
  {"InvalidState", "InvalidPacket", "ConnectionRefused", "Disconnected"}

\* ControlPacketType discriminants
CONNECT ==
  1

CONNACK ==
  2

PUBLISH ==
  3

SUBSCRIBE ==
  8

SUBACK ==
  9

UNSUBSCRIBE ==
  10

UNSUBACK ==
  11

DISCONNECT ==
  14

None ==
  -1

\* the derived ControlPacketType::from_u8: Some for 1..15, None otherwise
from_u8(n) ==
  IF n >= 1 /\ n <= 15 THEN n ELSE None

\* ------------------------------------------------------- PacketIdCounter
PacketIdCounterNew ==
  [counter |-> 1]

\* a counter that wraps to 0
PacketIdNext_wraps_to_zero(c) ==
  LET wrapped == (c.counter + 1) % U16
  IN [c |-> [counter |-> wrapped], id |-> c.counter]

\* self.counter.wrapping_add(1).max(1); returns the value before
PacketIdNext(c) ==
  LET wrapped == (c.counter + 1) % U16
  IN [c |-> [counter |-> IF wrapped >= 1 THEN wrapped ELSE 1], id |-> c.counter]

\* ----------------------------------------------------------- MqttClient
\* A session is [state, packet_counter, construct_buffer, message_buffer].
\* A build operation returns [self, result, out, len]: the session after
\* the call, "Ok" / an MqttError / "Panic", the returned slice and the
\* number of body bytes written to the construct buffer.
MqttClientNew(n) ==
  [state |-> Disconnected,
   packet_counter |-> PacketIdCounterNew,
   construct_buffer |-> [i \in 1..n |-> 0],
   message_buffer |-> [i \in 1..n |-> 0]]

\* a state check that never fails
assert_state_never(self, st) ==
  "Ok"

assert_state(self, st) ==
  IF self.state # st THEN "InvalidState" ELSE "Ok"

\* a framing that writes the remaining length as one byte
write_packet_length_byte(self, ty, flags, payload_len) ==
  LET w0 == WriterNew(self.message_buffer)
      w1 == write_u8(w0, BitOr(Shl8(ty, 4), flags.value))
      w2 == write_u8(w1, payload_len % U8)
      w3 == write_bytes_raw(w2, SubSeq(self.construct_buffer, 1, payload_len))
      self1 == [self EXCEPT !.message_buffer = w3.buffer]
  IN IF w3.ok
     THEN [self |-> self1, result |-> "Ok",
           out |-> SubSeq(w3.buffer, 1, WriterLen(w3)), len |-> payload_len]
     ELSE [self |-> self1, result |-> "Panic", out |-> <<>>, len |-> payload_len]

write_packet(self, ty, flags, payload_len) ==
  LET w0 == WriterNew(self.message_buffer)
      w1 == write_u8(w0, BitOr(Shl8(ty, 4), flags.value))
      w2 == write_variable_int(w1, U32Of(payload_len))
      w3 == write_bytes_raw(w2, SubSeq(self.construct_buffer, 1, payload_len))
      self1 == [self EXCEPT !.message_buffer = w3.buffer]
  IN IF w3.ok
     THEN [self |-> self1, result |-> "Ok",
           out |-> SubSeq(w3.buffer, 1, WriterLen(w3)), len |-> payload_len]
     ELSE [self |-> self1, result |-> "Panic", out |-> <<>>, len |-> payload_len]

\* a construct-buffer write ran past the capacity
BuildPanic(self, w) ==
  [self |-> [self EXCEPT !.construct_buffer = w.buffer],
   result |-> "Panic", out |-> <<>>, len |-> 0]

BuildErr(self, e) ==
  [self |-> self, result |-> e, out |-> <<>>, len |-> 0]

StrMQTT ==
  <<77, 81, 84, 84>>

\* a connect that leaves a Connected session Connected
connect_keeps_connected(self, client_id, username_password) ==
  LET f1 == FlagsSet(FlagsZero, 1)
      flags == IF username_password # <<>> THEN FlagsSet(FlagsSet(f1, 6), 7) ELSE f1
      w1 == write_string(WriterNew(self.construct_buffer), StrMQTT)
      w2 == write_u8(w1, 5)
      w3 == write_flags(w2, flags)
      w4 == write_u16(w3, 0)
      w5 == write_u8(w4, 0)
      w6 == write_string(w5, client_id)
      w7 == IF username_password # <<>>
            THEN write_string(write_string(w6, username_password[1]), username_password[2])
            ELSE w6
      st == IF self.state = Connected THEN Connected ELSE Connecting
  IN IF ~w7.ok THEN BuildPanic(self, w7)
     ELSE write_packet([self EXCEPT !.construct_buffer = w7.buffer, !.state = st],
                       CONNECT, FlagsZero, WriterLen(w7))

\* username_password is <<>> (None) or <<username, password>>
connect(self, client_id, username_password) ==
  LET f1 == FlagsSet(FlagsZero, 1)
      flags == IF username_password # <<>> THEN FlagsSet(FlagsSet(f1, 6), 7) ELSE f1
      w1 == write_string(WriterNew(self.construct_buffer), StrMQTT)
      w2 == write_u8(w1, 5)
      w3 == write_flags(w2, flags)
      w4 == write_u16(w3, 0)
      w5 == write_u8(w4, 0)
      w6 == write_string(w5, client_id)
      w7 == IF username_password # <<>>
            THEN write_string(write_string(w6, username_password[1]), username_password[2])
            ELSE w6
  IN IF ~w7.ok THEN BuildPanic(self, w7)
     ELSE write_packet([self EXCEPT !.construct_buffer = w7.buffer, !.state = Connecting],
                       CONNECT, FlagsZero, WriterLen(w7))

publish(self, topic, payload) ==
  IF assert_state(self, Connected) # "Ok" THEN BuildErr(self, assert_state(self, Connected))
  ELSE LET w1 == write_string(WriterNew(self.construct_buffer), topic)
           w2 == write_u16(w1, 0)
           w3 == write_u8(w2, 0)
           w4 == write_bytes_raw(w3, payload)
       IN IF ~w4.ok THEN BuildPanic(self, w4)
          ELSE write_packet([self EXCEPT !.construct_buffer = w4.buffer],
                            PUBLISH, FlagsZero, WriterLen(w4))

\* a subscribe that leaves out the subscription options
subscribe_no_options(self, topic_filter) ==
  IF assert_state(self, Connected) # "Ok" THEN BuildErr(self, assert_state(self, Connected))
  ELSE LET n == PacketIdNext(self.packet_counter)
           self1 == [self EXCEPT !.packet_counter = n.c]
           w1 == write_u16(WriterNew(self.construct_buffer), n.id)
           w2 == write_u8(w1, 0)
           w3 == write_string(w2, topic_filter)
       IN IF ~w3.ok THEN BuildPanic(self1, w3)
          ELSE write_packet([self1 EXCEPT !.construct_buffer = w3.buffer],
                            SUBSCRIBE, FlagsNew(2), WriterLen(w3))

subscribe(self, topic_filter) ==
  IF assert_state(self, Connected) # "Ok" THEN BuildErr(self, assert_state(self, Connected))
  ELSE LET n == PacketIdNext(self.packet_counter)
           self1 == [self EXCEPT !.packet_counter = n.c]
           w1 == write_u16(WriterNew(self.construct_buffer), n.id)
           w2 == write_u8(w1, 0)
           w3 == write_string(w2, topic_filter)
           w4 == write_flags(w3, FlagsZero)
       IN IF ~w4.ok THEN BuildPanic(self1, w4)
          ELSE write_packet([self1 EXCEPT !.construct_buffer = w4.buffer],
                            SUBSCRIBE, FlagsNew(2), WriterLen(w4))

unsubscribe(self, topic_filter) ==
  IF assert_state(self, Connected) # "Ok" THEN BuildErr(self, assert_state(self, Connected))
  ELSE LET n == PacketIdNext(self.packet_counter)
           self1 == [self EXCEPT !.packet_counter = n.c]
           w1 == write_u16(WriterNew(self.construct_buffer), n.id)
           w2 == write_u8(w1, 0)
           w3 == write_string(w2, topic_filter)
       IN IF ~w3.ok THEN BuildPanic(self1, w3)
          ELSE write_packet([self1 EXCEPT !.construct_buffer = w3.buffer],
                            UNSUBSCRIBE, FlagsNew(2), WriterLen(w3))

\* ------------------------------------------------------- receive_packet
\* The behaviours of the on_publish_rec closure: it is handed the session
\* mutably and may leave it alone or call one build operation on it, whose
\* result it drops.
CallbackKinds ==
  {"none", "connect"}

CallbackClientId ==
  <<99>>

\* the packet identifier a successful subscribe/unsubscribe stored in the
\* first two body bytes
WrittenId(b) ==
  IF b.result = "Ok" THEN <<b.self.construct_buffer[1] * 256 + b.self.construct_buffer[2]>>
  ELSE <<>>

\* the closure returns (); only a panic of the call it made is seen
CallbackDone(b) ==
  [self |-> b.self, ok |-> b.result # "Panic"]

on_publish_rec(self, cb, topic, payload) ==
  CallbackDone(CASE cb = "connect" -> connect(self, CallbackClientId, <<>>)
                 [] OTHER -> BuildErr(self, "Ok"))

\* what receive_packet hands back: the session, "Ok" / an MqttError /
\* "Panic", the returned MqttState (on Ok), and what the call did: one
\* trace entry per loop iteration, the callback invocations, and the final
\* read cursor
RecvDone(self, result, r, trace, calls) ==
  [self |-> self, result |-> result,
   ret |-> IF result = "Ok" THEN self.state ELSE "-",
   trace |-> trace, calls |-> calls, cursor |-> r.cursor]

\* a CONNACK arm that takes the acknowledge flags for the reason code
ConnackReason_flags(self, a, rc) ==
  IF ~rc.r.ok THEN [self |-> self, r |-> rc.r, end |-> "Panic"]
  ELSE IF a.v # 0
       THEN [self |-> [self EXCEPT !.state = Disconnected], r |-> rc.r,
             end |-> "ConnectionRefused"]
  ELSE [self |-> [self EXCEPT !.state = Connected], r |-> rc.r, end |-> "next"]

\* a CONNACK arm that goes on with the buffer after a refusal
ConnackReason_no_return(self, a, rc) ==
  IF ~rc.r.ok THEN [self |-> self, r |-> rc.r, end |-> "Panic"]
  ELSE IF rc.v # 0
       THEN [self |-> [self EXCEPT !.state = Disconnected], r |-> rc.r, end |-> "next"]
  ELSE [self |-> [self EXCEPT !.state = Connected], r |-> rc.r, end |-> "next"]

\* the CONNACK arm after its two reads: a is _connect_ack, rc the reason
\* code
ConnackReason(self, a, rc) ==
  IF ~rc.r.ok THEN [self |-> self, r |-> rc.r, end |-> "Panic"]
  ELSE IF rc.v # 0
       THEN [self |-> [self EXCEPT !.state = Disconnected], r |-> rc.r,
             end |-> "ConnectionRefused"]
  ELSE [self |-> [self EXCEPT !.state = Connected], r |-> rc.r, end |-> "next"]

ConnackRead(self, a) ==
  ConnackReason(self, a, read_u8(a.r))

\* the CONNACK arm
ConnackArm(self, r) ==
  ConnackRead(self, read_u8(r))

\* the DISCONNECT arm
DisconnectArm(self, r) ==
  [self |-> [self EXCEPT !.state = Disconnected], r |-> r, end |-> "Disconnected"]

\* a fallback arm that drops the connection
OtherArm_disconnects(self, r) ==
  [self |-> [self EXCEPT !.state = Disconnected], r |-> r, end |-> "InvalidPacket"]

\* the fallback arm
OtherArm(self, r) ==
  [self |-> self, r |-> r, end |-> "InvalidPacket"]

\* the SUBACK and UNSUBACK arms
NoArm(self, r) ==
  [self |-> self, r |-> r, end |-> "next"]

\* The PUBLISH arm up to the callback, [r, ok, topic, payload], in the
\* order of its statements.
PublishFail(r) ==
  [r |-> [r EXCEPT !.ok = FALSE], ok |-> FALSE, topic |-> <<>>, payload |-> <<>>]

\* let payload = reader.read_bytes_raw(payload_length), read as d
PublishPayload(topic, d) ==
  [r |-> d.r, ok |-> d.r.ok, topic |-> topic, payload |-> d.v]

\* let payload_length = remaining_length - reader.distance_from_mark():
\* below zero the usize subtraction panics (overflow checks) or wraps, and
\* then the slice whose end precedes its start panics
PublishLength(topic, r, remaining_length) ==
  IF remaining_length - distance_from_mark(r) < 0 /\ (r.checks \/ r.usize > 16)
  THEN PublishFail(r)
  ELSE PublishPayload(topic,
         read_bytes_raw(r, Wrapped(remaining_length - distance_from_mark(r), r)))

\* a PUBLISH arm that does not skip the property block
PublishSkip_none(topic, pl, remaining_length) ==
  IF ~pl.r.ok THEN PublishFail(pl.r)
  ELSE PublishLength(topic, pl.r, remaining_length)

\* reader.skip(property_length), pl being the property length read
PublishSkip(topic, pl, remaining_length) ==
  IF ~pl.r.ok THEN PublishFail(pl.r)
  ELSE PublishLength(topic, skip(pl.r, AsUsize(pl.v, pl.r)), remaining_length)

\* let property_length = reader.read_variable_int(), after the topic t
PublishProperties(t, remaining_length, checks) ==
  PublishSkip(t.v, read_variable_int(t.r, checks), remaining_length)

PublishArm(r, remaining_length, checks) ==
  PublishProperties(read_string(r), remaining_length, checks)

\* a round that ends the call with `end`
RecvEnd(self, r, e, end, trace, calls) ==
  RecvDone(self, end, r, Append(trace, [e EXCEPT !.end = end]), calls)

RECURSIVE RecvLoop(_, _, _, _, _, _)
\* reader.skip_to(remaining_length) and the next round of the loop; e is
\* the trace entry of this round
RecvSkipped(self, r, e, trace, calls, cb, checks) ==
  IF ~r.ok THEN RecvEnd(self, r, e, "Panic", trace, calls)
  ELSE RecvLoop(self, r, Append(trace, [e EXCEPT !.end = "next"]), calls, cb, checks)

RecvNext(self, r, e, trace, calls, cb, checks) ==
  RecvSkipped(self, skip_to(r, e.len), e, trace, calls, cb, checks)

\* after on_publish_rec returned c
RecvCalled(c, r, e, trace, calls, cb, checks) ==
  IF ~c.ok THEN RecvEnd(c.self, r, e, "Panic", trace, calls)
  ELSE RecvNext(c.self, r, e, trace, calls, cb, checks)

\* a PUBLISH arm that goes on with the session as it was before the
\* callback
RecvPublish_keeps_session(self, p, e, trace, calls, cb, checks) ==
  IF ~p.ok THEN RecvEnd(self, p.r, e, "Panic", trace, calls)
  ELSE RecvCalled([self |-> self, ok |-> TRUE], p.r, e, trace,
                  Append(calls, [topic |-> p.topic, payload |-> p.payload]), cb, checks)

\* on_publish_rec(self, topic, payload), p being what the arm read
RecvPublish(self, p, e, trace, calls, cb, checks) ==
  IF ~p.ok THEN RecvEnd(self, p.r, e, "Panic", trace, calls)
  ELSE RecvCalled(on_publish_rec(self, cb, p.topic, p.payload), p.r, e, trace,
                  Append(calls, [topic |-> p.topic, payload |-> p.payload]), cb, checks)

\* after an arm other than PUBLISH returned a
RecvArm(a, e, trace, calls, cb, checks) ==
  IF a.end = "next" THEN RecvNext(a.self, a.r, e, trace, calls, cb, checks)
  ELSE RecvEnd(a.self, a.r, e, a.end, trace, calls)

\* match ty
RecvMatch(self, r, e, trace, calls, cb, checks) ==
  IF e.ty = PUBLISH
  THEN RecvPublish(self, PublishArm(r, e.len, checks), e, trace, calls, cb, checks)
  ELSE RecvArm(CASE e.ty = CONNACK -> ConnackArm(self, r)
                 [] e.ty = SUBACK -> NoArm(self, r)
                 [] e.ty = UNSUBACK -> NoArm(self, r)
                 [] e.ty = DISCONNECT -> DisconnectArm(self, r)
                 [] OTHER -> OtherArm(self, r),
               e, trace, calls, cb, checks)

\* reader.mark() after the remaining length rl was read
RecvMark(self, off, ty, rl, trace, calls, cb, checks) ==
  IF ~rl.r.ok
  THEN RecvEnd(self, rl.r, [off |-> off, ty |-> ty, len |-> 0, mark |-> 0, end |-> "-"],
               "Panic", trace, calls)
  ELSE RecvMatch(self, mark(rl.r),
                 [off |-> off, ty |-> ty, len |-> AsUsize(rl.v, rl.r),
                  mark |-> rl.r.cursor, end |-> "-"],
                 trace, calls, cb, checks)

\* ControlPacketType::from_u8(fixed_header >> 4).unwrap(), then the
\* remaining length
RecvHeader(self, off, fixed_header, trace, calls, cb, checks) ==
  IF from_u8(fixed_header.v \div 16) = None
  THEN RecvEnd(self, fixed_header.r,
               [off |-> off, ty |-> fixed_header.v \div 16, len |-> 0, mark |-> 0,
                end |-> "-"], "Panic", trace, calls)
  ELSE RecvMark(self, off, from_u8(fixed_header.v \div 16),
                read_variable_int(fixed_header.r, checks), trace, calls, cb, checks)

\* while reader.remaining() > 0.  What a round does to the cursor depends
\* on the buffer and on the cursor it starts from only, so a round that
\* starts where an earlier round of the call started repeats it for ever:
\* the call does not return ("Hang").
RecvLoop(self, r, trace, calls, cb, checks) ==
  IF remaining(r) < 0 THEN RecvDone(self, "Panic", r, trace, calls)
  ELSE IF remaining(r) = 0 THEN RecvDone(self, "Ok", r, trace, calls)
  ELSE IF \E i \in 1..Len(trace) : trace[i].off = r.cursor
       THEN RecvDone(self, "Hang", r, trace, calls)
  ELSE RecvHeader(self, r.cursor, read_u8(r), trace, calls, cb, checks)

\* checks and usize describe the build: overflow checks on or off, and the
\* width of usize
receive_packet(self, packet, cb, checks, usize) ==
  RecvLoop(self, ReaderOn(packet, checks, usize), <<>>, <<>>, cb, checks)

\* ------------------------------------------------------------- the inputs
\* client identifiers, credentials, topics and payloads handed to the
\* build operations
ClientIds ==
  {<<99>>}

Credentials ==
  {<<>>, << <<117>>, <<112>> >>}

\* "t" and "a/b"
Topics ==
  {<<116>>, <<97, 47, 98>>}

\* a payload that makes the body 128 bytes or more, and one that cannot
\* fit the buffers
BigPayload ==
  [i \in 1..(LargeN - 12) |-> 0]

HugePayload ==
  [i \in 1..LargeN |-> 1]

\* "", "hi"
Payloads ==
  {<<>>, <<104, 105>>, BigPayload, HugePayload}

\* received packets, as a broker sends them
U16Bytes(n) ==
  <<(n \div 256) % 256, n % 256>>

ConnAckOk ==
  <<32, 2, 0, 0>>

\* session-present flag, reason 0, empty property block
ConnAckProps ==
  <<32, 3, 1, 0, 0>>

ConnAckRefused ==
  <<32, 2, 0, 128>>

SubAck ==
  <<144, 4, 0, 1, 0, 0>>

UnsubAck ==
  <<176, 4, 0, 1, 0, 0>>

DisconnectPkt ==
  <<224, 0>>

\* PUBLISH with topic t, a property block props and payload d, the
\* remaining length being the size of those fields
PublishPkt(t, props, d) ==
  LET body == U16Bytes(Len(t)) \o t \o <<Len(props)>> \o props \o d
  IN <<48, Len(body)>> \o body

PubHi ==
  PublishPkt(<<116>>, <<>>, <<104, 105>>)

\* two property bytes (payload format indicator = 1), payload <<7>>
PubProps ==
  PublishPkt(<<97, 47, 98>>, <<1, 1>>, <<7>>)

\* a property block and no payload
PubEmpty ==
  PublishPkt(<<116>>, <<1, 0>>, <<>>)

\* the type nibbles receive_packet has no arm for
OtherTypes ==
  (0..15) \ {CONNACK, SUBACK, UNSUBACK, PUBLISH, DISCONNECT}

OtherPkt(n) ==
  <<n * 16, 2, 0, 1>>

\* packets a well-behaved broker never sends: a PUBLISH whose remaining
\* length is shorter than its topic, a CONNACK cut off before the reason
\* code, a topic that is not UTF-8, a remaining length of six bytes
PubShort ==
  <<48, 1, 0, 1, 116>>

ConnAckCut ==
  <<32, 2, 0>>

PubBadUtf8 ==
  PublishPkt(<<255>>, <<>>, <<>>)

SubAckLongLen ==
  <<144, 128, 128, 128, 128, 128, 0>>

\* a SUBACK that declares 65532 bytes of content: the mark is 4, and
\* 4 + 65532 is 2^16
SubAckWrap ==
  <<144, 252, 255, 3>>

\* a CONNACK that declares no content: the arm reads its two bytes from
\* what follows
ConnAckZero ==
  <<32, 0>>

Malformed ==
  {PubShort, ConnAckCut, PubBadUtf8, SubAckLongLen, SubAckWrap}

Catalog ==
  {ConnAckOk, ConnAckProps, ConnAckRefused, SubAck, UnsubAck, DisconnectPkt,
   PubHi, PubProps, PubEmpty} \cup {OtherPkt(n) : n \in OtherTypes} \cup Malformed

\* A buffer holds one packet of the catalog, or several: then it starts with
\* one of Leaders and goes on with Followers.
Leaders ==
  {ConnAckOk, ConnAckProps, ConnAckRefused, SubAck, UnsubAck, DisconnectPkt,
   PubHi, PubProps, OtherPkt(0), OtherPkt(4), SubAckLongLen, ConnAckZero}

Followers ==
  {ConnAckOk, ConnAckRefused, DisconnectPkt, PubHi, OtherPkt(4)}

RECURSIVE PacketSeqs(_)
\* the sequences of exactly n packets, n >= 2
PacketSeqs(n) ==
  IF n = 2 THEN {<<p, q>> : p \in Leaders, q \in Followers}
  ELSE {Append(ps, q) : ps \in PacketSeqs(n - 1), q \in Followers}

RECURSIVE Flatten(_)
Flatten(ps) ==
  IF ps = <<>> THEN <<>> ELSE Head(ps) \o Flatten(Tail(ps))

Inputs ==
  {<<>>} \cup {<<p>> : p \in Catalog} \cup UNION {PacketSeqs(n) : n \in 2..MaxPackets}

HasPublish(ps) ==
  \E i \in 1..Len(ps) : ps[i][1] \div 16 = PUBLISH

\* Whether the build panics on arithmetic overflow (debug assertions) or
\* wraps: the two outcomes of the shift by 35 that read_variable_int makes
\* at the sixth byte of a variable-length integer.  Only inputs with such
\* an integer tell the builds apart.
OverflowChecks(ps) ==
  IF \E i \in 1..Len(ps) : ps[i] \in {SubAckLongLen, SubAckWrap} THEN BOOLEAN
  ELSE {TRUE}

\* The width of usize on the target.  Only inputs whose offsets reach 2^16
\* tell the targets apart.
UsizeOf(ps) ==
  IF \E i \in 1..Len(ps) : ps[i] = SubAckWrap THEN UsizeBits ELSE {64}

\* ------------------------------------------------------------ the machine
VARIABLES
  state,             \* MqttClient.state
  packet_counter,    \* MqttClient.packet_counter
  construct_buffer,  \* MqttClient.construct_buffer
  message_buffer,    \* MqttClient.message_buffer
  last,              \* the last call: its arguments and what it returned
  idlog,             \* the packet identifiers written in this run, in call order
  issued,            \* how many packet identifiers were drawn since new()
  disconnect_received \* a DISCONNECT arrived and connect was not called since

vars ==
  <<state, packet_counter, construct_buffer, message_buffer, last,
    idlog, issued, disconnect_received>>

Self ==
  [state |-> state, packet_counter |-> packet_counter,
   construct_buffer |-> construct_buffer, message_buffer |-> message_buffer]

SetSelf(s) ==
  /\ state' = s.state
  /\ packet_counter' = s.packet_counter
  /\ construct_buffer' = s.construct_buffer
  /\ message_buffer' = s.message_buffer

\* `last` when no call has returned since the session was built
NoCall ==
  [op |-> "new", result |-> "Ok", prev |-> Disconnected, out |-> <<>>, len |-> 0,
   arg |-> <<>>, pkts |-> <<>>, cb |-> "none", checks |-> TRUE, usize |-> 64,
   ret |-> "-",
   trace |-> <<>>,
   calls |-> <<>>, cursor |-> 0]

\* the record of a build call
BuildCall(op, arg, b) ==
  [NoCall EXCEPT !.op = op, !.result = b.result, !.prev = state, !.out = b.out,
                 !.len = b.len, !.arg = arg]

\* MqttClient::<n>::new()
InitWith(n) ==
  /\ state = MqttClientNew(n).state
  /\ packet_counter = MqttClientNew(n).packet_counter
  /\ construct_buffer = MqttClientNew(n).construct_buffer
  /\ message_buffer = MqttClientNew(n).message_buffer
  /\ last = NoCall
  /\ idlog = <<>>
  /\ issued = 0
  /\ disconnect_received = FALSE

Init ==
  InitWith(SmallN)

InitBuild ==
  InitWith(LargeN)

\* The session is borrowed mutably by a call and by the slice it returns:
\* the next call starts once the caller has let go of the last result.
Idle ==
  last.op \in {"new", "idle"}

Release ==
  /\ ~Idle
  /\ last.result \notin {"Panic", "Hang"}
  /\ last' = [NoCall EXCEPT !.op = "idle"]
  /\ UNCHANGED <<state, packet_counter, construct_buffer, message_buffer,
                 idlog, issued, disconnect_received>>

\* A build call that returned b and wrote the packet identifiers ids.
BuildReturn(op, arg, b, ids) ==
  /\ SetSelf(b.self)
  /\ last' = BuildCall(op, arg, b)
  /\ idlog' = idlog \o ids
  /\ issued' = issued + Len(ids)
  /\ disconnect_received' = IF op = "connect" THEN FALSE ELSE disconnect_received

\* A receive_packet call that returned x.
ReceiveReturn(pkts, cb, checks, usize, x) ==
  /\ SetSelf(x.self)
  /\ last' = [NoCall EXCEPT !.op = "receive", !.result = x.result, !.prev = state,
                            !.pkts = pkts, !.cb = cb, !.checks = checks,
                            !.usize = usize,
                            !.ret = x.ret, !.trace = x.trace, !.calls = x.calls,
                            !.cursor = x.cursor]
  /\ disconnect_received' =
       IF x.result = "Disconnected" THEN TRUE
       ELSE IF cb = "connect" /\ x.calls # <<>> THEN FALSE
       ELSE disconnect_received
  /\ UNCHANGED <<idlog, issued>>

\* The operations, over the sets their arguments are drawn from; b and x
\* are what the call returned.
ConnectOn(ids, creds) ==
  /\ Idle
  /\ \E client_id \in ids, up \in creds :
       \E b \in {connect(Self, client_id, up)} :
         BuildReturn("connect", <<client_id, up>>, b, <<>>)

PublishOn(topics, payloads) ==
  /\ Idle
  /\ \E topic \in topics, payload \in payloads :
       \E b \in {publish(Self, topic, payload)} :
         BuildReturn("publish", <<topic, payload>>, b, <<>>)

SubscribeOn(topics) ==
  /\ Idle
  /\ Len(idlog) < MaxIds
  /\ \E topic_filter \in topics :
       \E b \in {subscribe(Self, topic_filter)} :
         BuildReturn("subscribe", <<topic_filter>>, b, WrittenId(b))

UnsubscribeOn(topics) ==
  /\ Idle
  /\ Len(idlog) < MaxIds
  /\ \E topic_filter \in topics :
       \E b \in {unsubscribe(Self, topic_filter)} :
         BuildReturn("unsubscribe", <<topic_filter>>, b, WrittenId(b))

ReceiveOn(inputs, cbs) ==
  /\ Idle
  /\ \E pkts \in inputs, cb \in cbs, checks \in BOOLEAN, usize \in UsizeBits :
       /\ cb # "none" => HasPublish(pkts)
       /\ checks \in OverflowChecks(pkts)
       /\ usize \in UsizeOf(pkts)
       /\ \E x \in {receive_packet(Self, Flatten(pkts), cb, checks, usize)} :
            ReceiveReturn(pkts, cb, checks, usize, x)

\* The session protocol: every received input, one argument per build
\* operation.
Connect ==
  ConnectOn(ClientIds, {<<>>})

Publish ==
  PublishOn({<<116>>}, {<<104, 105>>})

Subscribe ==
  SubscribeOn({<<116>>})

Unsubscribe ==
  UnsubscribeOn({<<116>>})

Receive ==
  ReceiveOn(Inputs, CallbackKinds)

Next ==
  \/ Connect
  \/ Publish
  \/ Subscribe
  \/ Unsubscribe
  \/ Receive
  \/ Release

Spec ==
  Init /\ [][Next]_vars

\* The packet builders: every argument of the build operations, the
\* received inputs that move the session between its states.
BuildConnect ==
  ConnectOn(ClientIds, Credentials)

BuildPublish ==
  PublishOn(Topics, Payloads)

BuildSubscribe ==
  SubscribeOn(Topics)

BuildUnsubscribe ==
  UnsubscribeOn(Topics)

BuildReceive ==
  ReceiveOn({<<ConnAckOk>>, <<DisconnectPkt>>}, {"none"})

NextBuild ==
  \/ BuildConnect
  \/ BuildPublish
  \/ BuildSubscribe
  \/ BuildUnsubscribe
  \/ BuildReceive
  \/ Release

SpecBuild ==
  InitBuild /\ [][NextBuild]_vars

\* The packet identifiers: a session as new() builds it, or one whose
\* counter stands at 0xFFFF, as connect, a CONNACK with reason code 0 and
\* 0xFFFE subscribe calls leave it.
WrapSession ==
  subscribe([connect(MqttClientNew(LargeN), CallbackClientId, <<>>).self
               EXCEPT !.state = Connected, !.packet_counter = [counter |-> U16 - 2]],
            <<116>>).self

InitWrap ==
  /\ state = WrapSession.state
  /\ packet_counter = WrapSession.packet_counter
  /\ construct_buffer = WrapSession.construct_buffer
  /\ message_buffer = WrapSession.message_buffer
  /\ last = [NoCall EXCEPT !.op = "idle"]
  /\ idlog = <<>>
  /\ issued = U16 - 2
  /\ disconnect_received = FALSE

InitIds ==
  InitBuild \/ InitWrap

SpecWrap ==
  InitIds /\ [][NextBuild]_vars

\* The loop back: the bytes publish returned are handed, as they are, to
\* receive_packet.
EchoReturn(x) ==
  /\ SetSelf(x.self)
  /\ last' = [NoCall EXCEPT !.op = "receive", !.result = x.result, !.prev = state,
                            !.arg = last.arg, !.pkts = <<last.out>>, !.ret = x.ret,
                            !.trace = x.trace, !.calls = x.calls, !.cursor = x.cursor]
  /\ UNCHANGED <<idlog, issued, disconnect_received>>

EchoReceive ==
  /\ last.op = "publish"
  /\ last.result = "Ok"
  /\ \E x \in {receive_packet(Self, last.out, "none", TRUE, 64)} :
       EchoReturn(x)

NextEcho ==
  \/ BuildConnect
  \/ BuildPublish
  \/ BuildSubscribe
  \/ BuildUnsubscribe
  \/ BuildReceive
  \/ EchoReceive
  \/ Release

SpecEcho ==
  InitBuild /\ [][NextEcho]_vars

\* The writer and the reader on their own: a value is written to a fresh
\* buffer and the written bytes are read back.
\* u32 values around the steps of the encoding: 2^7, 2^14, 2^21, 2^28, 2^32
VarInts ==
  {[hi |-> h, lo |-> l] : h \in {0, 1, 31, 32, 4095, 4096, 65535},
                          l \in {0, 1, 127, 128, 16383, 16384, 65535}}

\* n bytes 'a'
Ascii(n) ==
  [i \in 1..n |-> 97]

\* A string is drawn as [u, n]: the character u, n times over.
StringOf(d) ==
  [i \in 1..(d.n * Len(d.u)) |-> d.u[((i - 1) % Len(d.u)) + 1]]

\* "", "t", "a/b", two- and four-byte characters, and strings around the
\* steps of the length prefix: 2^8 and 2^16
Strings ==
  {[u |-> <<97>>, n |-> 0], [u |-> <<116>>, n |-> 1], [u |-> <<97, 47, 98>>, n |-> 1],
   [u |-> <<195, 169>>, n |-> 1], [u |-> <<240, 159, 146, 169>>, n |-> 1],
   [u |-> <<195, 169>>, n |-> 8]}
    \cup {[u |-> <<97>>, n |-> k] : k \in {U8 - 1, U8, U8 + 1, U16}}

\* what follows the written bytes in the buffer that is read
Tails ==
  {<<>>, <<129>>}

\* the bytes a writer has written
Written(w) ==
  SubSeq(w.buffer, 1, w.cursor)

\* a write that returned the writer w
WriteReturn(op, arg, w) ==
  /\ last' = [NoCall EXCEPT !.op = op, !.arg = arg, !.out = Written(w),
                            !.len = WriterLen(w),
                            !.result = IF w.ok THEN "Ok" ELSE "Panic"]
  /\ UNCHANGED <<state, packet_counter, construct_buffer, message_buffer,
                 idlog, issued, disconnect_received>>

\* a read of the bytes last written, followed by tail, that returned x
ReadReturn(op, tail, checks, x) ==
  /\ last' = [last EXCEPT !.op = op, !.out = <<>>, !.pkts = tail, !.checks = checks,
                          !.ret = x.v, !.cursor = x.r.cursor,
                          !.result = IF x.r.ok THEN "Ok" ELSE "Panic"]
  /\ UNCHANGED <<state, packet_counter, construct_buffer, message_buffer,
                 idlog, issued, disconnect_received>>

WriteVariableInt ==
  /\ Idle
  /\ \E value \in VarInts :
       \E w \in {write_variable_int(WriterNew(Ascii(8)), value)} :
         WriteReturn("write_variable_int", value, w)

ReadVariableInt ==
  /\ last.op = "write_variable_int"
  /\ last.result = "Ok"
  /\ \E tail \in Tails, checks \in BOOLEAN :
       \E x \in {read_variable_int(ReaderNew(last.out \o tail), checks)} :
         ReadReturn("read_variable_int", tail, checks, x)

WriteString ==
  /\ Idle
  /\ \E d \in Strings :
       \E w \in {write_string(WriterNew(Ascii(d.n * Len(d.u) + 4)), StringOf(d))} :
         WriteReturn("write_string", d, w)

ReadString ==
  /\ last.op = "write_string"
  /\ last.result = "Ok"
  /\ \E tail \in Tails :
       \E x \in {read_string(ReaderNew(last.out \o tail))} :
         ReadReturn("read_string", tail, TRUE, x)

NextCodec ==
  \/ WriteVariableInt
  \/ ReadVariableInt
  \/ WriteString
  \/ ReadString
  \/ Release

SpecCodec ==
  Init /\ [][NextCodec]_vars

\* ================================================================ claims
BuildOps ==
  {"publish", "subscribe", "unsubscribe"}

\* the type nibble of a packet
TypeOf(p) ==
  p[1] \div 16

\* the packets of the catalog after which receive_packet goes on to the
\* next packet; a remaining length of six bytes is read (as 0) only when
\* overflow checks are off
GoesOn(p, checks) ==
  \/ p \in {ConnAckOk, ConnAckProps, SubAck, UnsubAck, PubHi, PubProps, PubEmpty}
  \/ p = SubAckLongLen /\ ~checks

\* the index of the first packet that ends the call, 0 when there is none
RECURSIVE FirstEnd(_, _, _)
FirstEnd(ps, i, checks) ==
  IF i > Len(ps) THEN 0
  ELSE IF GoesOn(ps[i], checks) THEN FirstEnd(ps, i + 1, checks)
  ELSE i

\* the packets receive_packet is to process: up to the first that ends
\* the call
Processed(ps, checks) ==
  IF FirstEnd(ps, 1, checks) = 0 THEN ps ELSE SubSeq(ps, 1, FirstEnd(ps, 1, checks))

\* the fields the PUBLISH packets of the catalog are made of: topic T,
\* property block, payload D
PublishFields ==
  {[t |-> <<116>>, props |-> <<>>, d |-> <<104, 105>>],
   [t |-> <<97, 47, 98>>, props |-> <<1, 1>>, d |-> <<7>>],
   [t |-> <<116>>, props |-> <<1, 0>>, d |-> <<>>]}

\* what the callback is to be handed for packet p: (T, D) when p is a
\* PUBLISH made of such fields, nothing otherwise
PublishCalls(p) ==
  {[topic |-> f.t, payload |-> f.d] :
     f \in {g \in PublishFields : PublishPkt(g.t, g.props, g.d) = p}}

\* what the callback is to be handed for the PUBLISH packets of ps
RECURSIVE ExpectedCalls(_)
ExpectedCalls(ps) ==
  IF ps = <<>> THEN <<>>
  ELSE (IF PublishCalls(Head(ps)) = {} THEN <<>>
        ELSE <<CHOOSE c \in PublishCalls(Head(ps)) : TRUE>>) \o ExpectedCalls(Tail(ps))

\* the state the packets ps leave a session in that was in state st, when
\* none of them ends the call: a CONNACK with reason code 0 connects, and a
\* callback that calls connect leaves it Connecting
RECURSIVE ExpectedState(_, _, _)
ExpectedState(st, ps, cb) ==
  IF ps = <<>> THEN st
  ELSE ExpectedState(IF Head(ps) \in {ConnAckOk, ConnAckProps} THEN Connected
                     ELSE IF PublishCalls(Head(ps)) # {} /\ cb = "connect" THEN Connecting
                     ELSE st,
                     Tail(ps), cb)

\* C1: outside Connected, publish, subscribe and unsubscribe return
\* InvalidState and leave the state, the packet-identifier counter and both
\* buffers as they were.
C1_RejectedOutsideConnected ==
  [][(last'.op \in BuildOps /\ state # Connected) =>
       /\ last'.result = "InvalidState"
       /\ UNCHANGED <<state, packet_counter, construct_buffer, message_buffer>>]_vars

C1_Witness ==
  /\ last.op = "subscribe"
  /\ last.prev = Connecting
  /\ last.result = "InvalidState"
  /\ construct_buffer[2] = 4

\* C2: a new session is Disconnected, and every connect call returns Ok and
\* leaves the session Connecting, whatever the state before the call.
C2_ConnectAlwaysConnecting ==
  /\ last.op = "new" => state = Disconnected
  /\ last.op = "connect" => last.result = "Ok" /\ state = Connecting

C2_Witness ==
  /\ last.op = "connect"
  /\ last.prev = Connected
  /\ state = Connecting

\* C3: in state Connecting a buffer of one CONNACK with reason code 0 makes
\* the session Connected and receive_packet return Connected; in state
\* Connected every build operation succeeds, and the session leaves
\* Connected only by a refused CONNACK, a DISCONNECT or a connect.
C3_ConnackOkConnects ==
  [][/\ (last'.op = "receive" /\ state = Connecting
          /\ last'.pkts \in {<<ConnAckOk>>, <<ConnAckProps>>})
        => (last'.result = "Ok" /\ last'.ret = Connected /\ state' = Connected)
     /\ (last'.op \in BuildOps /\ state = Connected) => last'.result = "Ok"
     /\ (state = Connected /\ state' # Connected) =>
          \/ last'.op = "connect"
          \/ last'.op = "receive" /\ last'.result \in {"ConnectionRefused", "Disconnected"}
          \/ last'.op = "receive" /\ last'.cb = "connect" /\ last'.calls # <<>>]_vars

C3_Witness ==
  /\ last.op = "receive"
  /\ last.prev = Connecting
  /\ last.pkts = <<ConnAckProps>>
  /\ last.ret = Connected
  /\ state = Connected

\* C4: a CONNACK with a non-zero reason code sets the state to Disconnected
\* and returns ConnectionRefused, and nothing after it in the buffer is
\* processed: the callback is invoked only for the PUBLISH packets before
\* it and the state stays Disconnected.
C4_RefusedConnackEndsCall ==
  last.op = "receive" =>
    LET k == FirstEnd(last.pkts, 1, last.checks)
    IN (k > 0 /\ last.pkts[k] = ConnAckRefused) =>
         /\ last.result = "ConnectionRefused"
         /\ state = Disconnected
         /\ Len(last.trace) = k
         /\ last.trace[k].ty = CONNACK
         /\ last.cursor = Len(Flatten(SubSeq(last.pkts, 1, k)))
         /\ last.calls = ExpectedCalls(SubSeq(last.pkts, 1, k - 1))

C4_Witness ==
  /\ last.op = "receive"
  /\ last.prev = Connected
  /\ last.pkts = <<ConnAckRefused, PubHi>>
  /\ last.result = "ConnectionRefused"
  /\ state = Disconnected

\* C5: a DISCONNECT packet sets the state to Disconnected, returns the
\* Disconnected error and ends the call with nothing after it processed;
\* from then on publish, subscribe and unsubscribe return InvalidState
\* until connect is called again (and a CONNACK with reason code 0 read).
C5_DisconnectEndsSession ==
  [][/\ (last'.op = "receive"
          /\ FirstEnd(last'.pkts, 1, last'.checks) > 0
          /\ last'.pkts[FirstEnd(last'.pkts, 1, last'.checks)] = DisconnectPkt)
        => /\ last'.result = "Disconnected"
           /\ state' = Disconnected
           /\ Len(last'.trace) = FirstEnd(last'.pkts, 1, last'.checks)
           /\ last'.calls = ExpectedCalls(Processed(last'.pkts, last'.checks))
     /\ (last'.op \in BuildOps /\ disconnect_received)
        => last'.result = "InvalidState"]_vars

\* C6: a packet whose type nibble has no arm (any of 0..15 but CONNACK,
\* SUBACK, UNSUBACK, PUBLISH, DISCONNECT) makes receive_packet return
\* InvalidPacket at once: it is the last packet processed and the callback
\* is invoked for no PUBLISH after it.
C6_UnknownTypeInvalidPacket ==
  last.op = "receive" =>
    LET k == FirstEnd(last.pkts, 1, last.checks)
    IN (k > 0 /\ TypeOf(last.pkts[k]) \in OtherTypes) =>
         /\ last.result = "InvalidPacket"
         /\ Len(last.trace) = k
         /\ last.calls = ExpectedCalls(SubSeq(last.pkts, 1, k - 1))

\* C7 as stated: after a receive_packet that ended with ConnectionRefused,
\* Disconnected or InvalidPacket the session is Disconnected.
C7_FailureDisconnects ==
  (last.op = "receive"
     /\ last.result \in {"ConnectionRefused", "Disconnected", "InvalidPacket"})
    => state = Disconnected

\* C7: after a receive_packet that ended with ConnectionRefused or
\* Disconnected the session is Disconnected; one that ended with
\* InvalidPacket leaves the state the packets before the unrecognized one
\* made, and the unrecognized packet itself changes nothing.
C7_FailureStates ==
  last.op = "receive" =>
    /\ last.result \in {"ConnectionRefused", "Disconnected"} => state = Disconnected
    /\ last.result = "InvalidPacket" =>
         state = ExpectedState(last.prev,
                   SubSeq(last.pkts, 1, FirstEnd(last.pkts, 1, last.checks) - 1),
                   last.cb)

C7_Witness ==
  /\ last.op = "receive"
  /\ last.prev = Connected
  /\ last.pkts = <<SubAck, OtherPkt(4)>>
  /\ last.result = "InvalidPacket"
  /\ state = Connected

\* C8: subscribe and unsubscribe share one counter: the k-th identifier
\* written since new() is ((k - 1) mod 0xFFFF) + 1, so 1, 2, 3, ... in call
\* order and 1 again after 0xFFFF; no identifier written is 0 and the
\* counter is never 0.
C8_PacketIdSequence ==
  /\ packet_counter.counter \in 1..(U16 - 1)
  /\ packet_counter.counter = (issued % (U16 - 1)) + 1
  /\ \A i \in 1..Len(idlog) :
       /\ idlog[i] # 0
       /\ idlog[i] = ((issued - Len(idlog) + i - 1) % (U16 - 1)) + 1

C8_Witness ==
  /\ idlog = <<U16 - 1, 1>>
  /\ last.op = "unsubscribe"
  /\ last.result = "Ok"
  /\ packet_counter.counter = 2

\* C9: the callback is invoked once for each PUBLISH packet of the input
\* that is processed, in order, with the packet's topic T and its payload
\* D: the property block is part of neither.
C9_PublishCallback ==
  last.op = "receive" => last.calls = ExpectedCalls(Processed(last.pkts, last.checks))

C9_Witness ==
  /\ last.op = "receive"
  /\ last.result = "Ok"
  /\ last.pkts = <<PubProps, PubHi>>
  /\ last.calls = <<[topic |-> <<97, 47, 98>>, payload |-> <<7>>],
                    [topic |-> <<116>>, payload |-> <<104, 105>>]>>

\* the first byte of the packet a build operation returns
HeaderByte(op) ==
  CASE op = "connect" -> 16
    [] op = "publish" -> 48
    [] op = "subscribe" -> 130
    [] op = "unsubscribe" -> 162

\* the variable-length encoding of a length: seven bits a byte, low group
\* first, bit 7 set on every byte but the last
RECURSIVE EncodeLen(_)
EncodeLen(l) ==
  IF l < 128 THEN <<l>> ELSE <<(l % 128) + 128>> \o EncodeLen(l \div 128)

Width(l) ==
  IF l < 128 THEN 1 ELSE IF l < 16384 THEN 2 ELSE IF l < 2097152 THEN 3 ELSE 4

\* C10: a successful build operation with a body of L bytes returns the
\* header byte of its packet type, the variable-length encoding of L and
\* the L body bytes, 1 + width(L) + L bytes from offset 0 of the message
\* buffer.
C10_PacketFraming ==
  (last.op \in {"connect", "publish", "subscribe", "unsubscribe"} /\ last.result = "Ok") =>
    /\ last.out = <<HeaderByte(last.op)>> \o EncodeLen(last.len)
                     \o SubSeq(construct_buffer, 1, last.len)
    /\ Len(last.out) = 1 + Width(last.len) + last.len
    /\ last.out = SubSeq(message_buffer, 1, Len(last.out))

C10_Witness ==
  /\ last.op = "publish"
  /\ last.result = "Ok"
  /\ last.len >= 128
  /\ last.out[2] >= 128
  /\ Len(last.out) = last.len + 3

\* a string as the packets carry it: two bytes of length, big-endian, and
\* the bytes
Str(b) ==
  <<Len(b) \div 256, Len(b) % 256>> \o b

\* the packet identifier of the latest subscribe or unsubscribe call
LatestId ==
  ((issued - 1) % (U16 - 1)) + 1

\* C11: subscribe returns 0x82, the remaining length, the packet
\* identifier, property length 0, the filter as a string and the options
\* byte 0; unsubscribe returns 0xA2 and the same without the options byte;
\* the first subscribe, with filter "a/b", returns 82 09 00 01 00 00 03
\* 'a' '/' 'b' 00.
C11_SubscribeLayout ==
  /\ (last.op = "subscribe" /\ last.result = "Ok") =>
       /\ last.out = <<130, 6 + Len(last.arg[1])>> \o U16Bytes(LatestId) \o <<0>>
                        \o Str(last.arg[1]) \o <<0>>
       /\ (issued = 1 /\ last.arg[1] = <<97, 47, 98>>) =>
            last.out = <<130, 9, 0, 1, 0, 0, 3, 97, 47, 98, 0>>
  /\ (last.op = "unsubscribe" /\ last.result = "Ok") =>
       last.out = <<162, 5 + Len(last.arg[1])>> \o U16Bytes(LatestId) \o <<0>>
                    \o Str(last.arg[1])

C11_Witness ==
  /\ last.op = "subscribe"
  /\ last.result = "Ok"
  /\ issued = 1
  /\ last.arg = << <<97, 47, 98>> >>
  /\ Len(last.out) = 11

\* C12: the CONNECT body is "MQTT", version 5, the connect flags,
\* keep-alive 0, property length 0, the client identifier, and then the
\* username and the password exactly when credentials are given; the
\* connect flags are 0x02 without credentials and 0xC2 with them.
C12_ConnectBody ==
  (last.op = "connect" /\ last.result = "Ok") =>
    /\ SubSeq(last.out, 3, Len(last.out)) =
         Str(<<77, 81, 84, 84>>) \o <<5, IF last.arg[2] = <<>> THEN 2 ELSE 194, 0, 0, 0>>
           \o Str(last.arg[1])
           \o (IF last.arg[2] = <<>> THEN <<>>
               ELSE Str(last.arg[2][1]) \o Str(last.arg[2][2]))
    /\ last.out[1] = 16
    /\ last.out[2] = Len(last.out) - 2

C12_Witness ==
  /\ last.op = "connect"
  /\ last.result = "Ok"
  /\ last.arg[2] = << <<117>>, <<112>> >>
  /\ last.out[10] = 194

\* C13: write_variable_int followed by read_variable_int returns the value
\* written and consumes exactly the bytes written; the encoding has no
\* trailing zero group; 0 is 00, 127 is 7F, 128 is 80 01.
C13_VarIntRoundTrip ==
  /\ last.op = "write_variable_int" =>
       /\ last.result = "Ok"
       /\ Len(last.out) = last.len
       /\ Len(last.out) = 1 \/ last.out[Len(last.out)] # 0
       /\ last.arg = [hi |-> 0, lo |-> 0] => last.out = <<0>>
       /\ last.arg = [hi |-> 0, lo |-> 127] => last.out = <<127>>
       /\ last.arg = [hi |-> 0, lo |-> 128] => last.out = <<128, 1>>
  /\ last.op = "read_variable_int" =>
       /\ last.result = "Ok"
       /\ last.ret = last.arg
       /\ last.cursor = last.len

C13_Witness ==
  /\ last.op = "read_variable_int"
  /\ last.arg = [hi |-> 65535, lo |-> 65535]
  /\ last.pkts = <<129>>
  /\ last.ret = [hi |-> 65535, lo |-> 65535]
  /\ last.cursor = 5

\* C14: write_variable_int emits between 1 and 4 bytes for every value it
\* is given.
C14_VarIntAtMostFourBytes ==
  last.op = "write_variable_int" => (Len(last.out) >= 1 /\ Len(last.out) <= 4)

\* C15: write_string followed by read_string returns the string written:
\* the prefix is the byte length of the string, the bytes after it are the
\* bytes of the string, and the reader ends where the writer ended.
C15_StringRoundTrip ==
  /\ last.op = "write_string" =>
       /\ last.out[1] * 256 + last.out[2] = Len(StringOf(last.arg))
       /\ SubSeq(last.out, 3, Len(last.out)) = StringOf(last.arg)
       /\ Len(last.out) = last.len
  /\ last.op = "read_string" =>
       /\ last.result = "Ok"
       /\ last.ret = StringOf(last.arg)
       /\ last.cursor = last.len

\* the packets whose declared remaining length is the number of bytes
\* that follow it
Honest(p) ==
  Len(p) >= 2 /\ p[2] < 128 /\ p[2] = Len(p) - 2

\* where the cursor is at the end of round i of the last receive_packet
\* call: where round i + 1 starts, or where the call ended
EndCursor(i) ==
  IF i < Len(last.trace) THEN last.trace[i + 1].off ELSE last.cursor

\* C16: after a packet that does not end the call, whose content starts at
\* offset m and whose declared remaining length R stays within the buffer,
\* the next fixed header is read at offset m + R, whatever the arm read
\* (less than R or more); and when the declared lengths of the packets
\* before it are honest, every round starts at the first byte of a packet.
C16_SkipToNextPacket ==
  last.op = "receive" =>
    \A i \in 1..Len(last.trace) :
      /\ (/\ last.trace[i].end = "next"
          /\ last.trace[i].mark + last.trace[i].len <= Len(Flatten(last.pkts)))
           => EndCursor(i) = last.trace[i].mark + last.trace[i].len
      /\ (\A j \in 1..(i - 1) : j <= Len(last.pkts) /\ Honest(last.pkts[j]))
           => last.trace[i].off = Len(Flatten(SubSeq(last.pkts, 1, i - 1)))

\* a CONNACK of remaining length 0, whose arm reads the two header bytes
\* of the DISCONNECT behind it: the DISCONNECT is still read at offset 2
C16_Witness ==
  /\ last.op = "receive"
  /\ last.pkts = <<ConnAckZero, DisconnectPkt>>
  /\ last.prev = Connecting
  /\ Len(last.trace) = 2
  /\ last.trace[1].ty = CONNACK /\ last.trace[1].mark = 2 /\ last.trace[1].len = 0
  /\ last.trace[2].ty = DISCONNECT /\ last.trace[2].off = 2
  /\ last.result = "Disconnected"

\* C17: receive_packet ends on every input: it does not loop for ever,
\* every round that goes on to the next ends with the cursor at least two
\* bytes beyond where the round started, and there are no more rounds than
\* input bytes.
C17_ForwardProgress ==
  last.op = "receive" =>
    /\ last.result # "Hang"
    /\ Len(last.trace) <= Len(Flatten(last.pkts))
    /\ \A i \in 1..Len(last.trace) :
         last.trace[i].end = "next" => EndCursor(i) >= last.trace[i].off + 2

\* C18: every step that makes the session Connected starts in state
\* Connecting and is a receive_packet call: a Disconnected session does not
\* become Connected unless connect is called first.
C18_ConnectedOnlyFromConnecting ==
  [][(state' = Connected /\ state # Connected) =>
       (state = Connecting /\ last'.op = "receive")]_vars

\* C19: the state a successful receive_packet returns is the state of the
\* session at the end of the call, after the last packet and after what
\* the callback did (a callback that calls connect leaves Connecting); on
\* an empty input the call returns the current state and changes nothing.
C19_ReturnsFinalState ==
  [][last'.op = "receive" =>
       /\ last'.result = "Ok" =>
            /\ last'.ret = state'
            /\ state' = ExpectedState(state, last'.pkts, last'.cb)
       /\ last'.pkts = <<>> =>
            /\ last'.result = "Ok"
            /\ last'.ret = state
            /\ UNCHANGED <<state, packet_counter, construct_buffer, message_buffer>>]_vars

C19_Witness ==
  /\ last.op = "receive"
  /\ last.cb = "connect"
  /\ last.prev = Connected
  /\ last.pkts = <<ConnAckOk, PubHi>>
  /\ last.result = "Ok"
  /\ last.ret = Connecting
  /\ state = Connecting

\* C20: the bytes publish(topic, payload) returned, handed to
\* receive_packet, invoke the callback once, with that topic and that
\* payload.
C20_PublishRoundTrip ==
  (last.op = "receive" /\ last.arg # <<>>) =>
    /\ last.result = "Ok"
    /\ last.calls = <<[topic |-> last.arg[1], payload |-> last.arg[2]]>>

====
